---------------------------- MODULE Spec2Model ----------------------------
(***************************************************************************)
(* Model of src/src/Simulation/Calculations.py: the 2D "Stable Fluids"     *)
(* kernel (set_bnd, advect, lin_solve, diffuse, project).                  *)
(*                                                                         *)
(* Fields are NN x NN arrays.  Cell values are exact rationals <<n, d>>    *)
(* (d > 0, lowest terms): the arithmetic of the source is modelled by what *)
(* it computes, without floating-point rounding.  Arrays live in a heap of *)
(* buffers, so that writing into the caller's array and binding a name to  *)
(* a newly allocated array are different things, as they are in Python.    *)
(***************************************************************************)
EXTENDS Integers, Sequences, FiniteSets, TLC

VARIABLES
    N,      \* the module-level grid dimension (from ..Properties import *)
    iter,   \* the module-level sweep count read by lin_solve
    heap,   \* buffer id -> field, or NoField for an id not allocated yet
    heap0,  \* the heap as it was when the call was entered
    call,   \* the arguments of the call being executed
    pc,     \* the position in the call
    k,      \* lin_solve's loop variable: the sweeps performed so far
    loc,    \* advect's local arrays x and y after clamping
    ret,    \* the buffer id(s) returned by the call
    apps    \* completed applications of diffuse by the double-buffering driver

vars == <<N, iter, heap, heap0, call, pc, k, loc, ret, apps>>

---------------------------------------------------------------------------
(* Bounds of the model. *)

\* largest grid dimension
MaxN == 4
\* largest sweep count
MaxIter == 2
\* number of generic input fields
MaxSeed == 2
\* largest total number of sweeps in a run of repeated diffusion
MaxSweeps == 4

---------------------------------------------------------------------------
(* Exact rational arithmetic. *)

Abs(n) == IF n < 0 THEN -n ELSE n

RECURSIVE GCD(_, _)
GCD(a, b) == IF b = 0 THEN a ELSE GCD(b, a % b)

Norm(n, d) ==
    LET s == IF d < 0 THEN -1 ELSE 1
        g == GCD(Abs(n), Abs(d))
    IN  IF n = 0 THEN <<0, 1>> ELSE <<(s * n) \div g, (s * d) \div g>>

Q(n)       == <<n, 1>>
Zero       == <<0, 1>>
One        == <<1, 1>>
Half       == <<1, 2>>
\* Sums and products cancel common factors before multiplying, so that the
\* intermediate integers stay as small as the result allows.
RAdd(p, q) ==
    LET g == GCD(p[2], q[2])
    IN  Norm(p[1] * (q[2] \div g) + q[1] * (p[2] \div g), p[2] * (q[2] \div g))
RNeg(p)    == <<-p[1], p[2]>>
RSub(p, q) == RAdd(p, RNeg(q))
RMul(p, q) ==
    LET g1 == GCD(Abs(p[1]), q[2])
        g2 == GCD(Abs(q[1]), p[2])
    IN  IF p[1] = 0 \/ q[1] = 0 THEN <<0, 1>>
        ELSE Norm((p[1] \div g1) * (q[1] \div g2), (p[2] \div g2) * (q[2] \div g1))
RDiv(p, q) == RMul(p, IF q[1] < 0 THEN <<-q[2], -q[1]>> ELSE <<q[2], q[1]>>)
RAbs(p)    == <<Abs(p[1]), p[2]>>
RLt(p, q)  == RSub(p, q)[1] < 0
RLe(p, q)  == RSub(p, q)[1] <= 0
\* np.floor: the largest integer not above p
RFloor(p)  == p[1] \div p[2]

---------------------------------------------------------------------------
(* Fields. *)

Idx(NN)   == 0 .. (NN - 1)
Cells(NN) == Idx(NN) \X Idx(NN)

Corners(NN) == {<<0, 0>>, <<0, NN - 1>>, <<NN - 1, 0>>, <<NN - 1, NN - 1>>}

Interior(NN) == (1 .. (NN - 2)) \X (1 .. (NN - 2))

\* The side of a field.
Side(f) == CHOOSE n \in 1 .. (MaxN + 1) : DOMAIN f = Cells(n)

\* Python's index wrap-around: x[-1] is the last element, x[-2] the one before.
Wrap(i, NN) == IF i < 0 THEN NN + i ELSE i

NoField == <<>>
BufIds  == 1 .. 5

\* The first buffer id not allocated yet: np allocates a new array.
Fresh(h) == CHOOSE id \in BufIds : h[id] = NoField /\ \A j \in BufIds : j < id => h[j] # NoField

Kinds == {0, 1, 2}

ConstField(NN, v) == [c \in Cells(NN) |-> v]

\* A field with one nonzero cell.
PeakField(NN, at, v) == [c \in Cells(NN) |-> IF c = at THEN v ELSE Zero]

\* Generic input fields: integer values in -3 .. 3 without symmetry.
Pattern(s, NN) ==
    [c \in Cells(NN) |->
        Q((((2 * s + 3) * (c[1] + 1) + (s + 5) * (c[2] + 1) * (c[2] + 1)
             + (s + 1) * c[1] * c[2]) % 7) - 3)]

FieldSet(NN) == {Pattern(s, NN) : s \in 0 .. MaxSeed}

---------------------------------------------------------------------------
(* set_bnd *)

\* The conventional boundary routine: every edge cell mirrors its interior
\* neighbour, negated on the walls that b selects, and then the corners are
\* averaged.
set_bnd_edges(b, x) ==
    LET NN == Side(x)
        Sx(v) == IF b = 1 THEN RNeg(v) ELSE v
        Sy(v) == IF b = 2 THEN RNeg(v) ELSE v
        e  == [c \in Cells(NN) |->
                IF c \in Corners(NN) \/ c \in Interior(NN) THEN x[c]
                ELSE IF c[1] = 0 THEN Sx(x[<<1, c[2]>>])
                ELSE IF c[1] = NN - 1 THEN Sx(x[<<NN - 2, c[2]>>])
                ELSE IF c[2] = 0 THEN Sy(x[<<c[1], 1>>])
                ELSE Sy(x[<<c[1], NN - 2>>])]
        Avg(p, q) == RDiv(RAdd(e[p], e[q]), Q(2))
    IN  [c \in Cells(NN) |->
            IF c = <<0, 0>> THEN Avg(<<1, 0>>, <<0, 1>>)
            ELSE IF c = <<0, NN - 1>> THEN Avg(<<1, NN - 1>>, <<0, NN - 2>>)
            ELSE IF c = <<NN - 1, 0>> THEN Avg(<<NN - 2, 0>>, <<NN - 1, 1>>)
            ELSE IF c = <<NN - 1, NN - 1>> THEN Avg(<<NN - 2, NN - 1>>, <<NN - 1, NN - 2>>)
            ELSE e[c]]

\* The four assignments of set_bnd, in order; each reads the array as the
\* assignments before it left it.  b is not read.
set_bnd(b, x) ==
    LET NN == Side(x)
        m1 == Wrap(-1, NN)
        m2 == Wrap(-2, NN)
        Avg(f, p, q) == RDiv(RAdd(f[p], f[q]), Q(2))
        x1 == [x  EXCEPT ![<<0, 0>>]   = Avg(x,  <<1, 0>>,   <<0, 1>>)]
        x2 == [x1 EXCEPT ![<<0, m1>>]  = Avg(x1, <<1, m1>>,  <<0, m2>>)]
        x3 == [x2 EXCEPT ![<<m1, 0>>]  = Avg(x2, <<m2, 0>>,  <<m1, 1>>)]
        x4 == [x3 EXCEPT ![<<m1, m1>>] = Avg(x3, <<m2, m1>>, <<m1, m2>>)]
    IN  x4

EmptyHeap == [id \in BufIds |-> NoField]

InitSetBnd ==
    /\ N \in 2 .. MaxN
    /\ iter \in 1 .. MaxIter
    /\ \E NN \in 2 .. MaxN, b \in Kinds :
         \E f \in FieldSet(NN) \cup {ConstField(NN, One)} :
            /\ heap = [EmptyHeap EXCEPT ![1] = f]
            /\ call = [op |-> "set_bnd", b |-> b, x |-> 1, NN |-> NN]
    /\ heap0 = heap
    /\ pc = "set_bnd"
    /\ k = 0
    /\ loc = <<>>
    /\ ret = <<>>
    /\ apps = 0

SetBndCall ==
    /\ pc = "set_bnd"
    /\ heap' = [heap EXCEPT ![call.x] = set_bnd(call.b, heap[call.x])]
    /\ ret' = <<call.x>>
    /\ pc' = "done"
    /\ UNCHANGED <<N, iter, heap0, call, k, loc, apps>>

NextSetBnd == SetBndCall

SpecSetBnd == InitSetBnd /\ [][NextSetBnd]_vars

\* C4: set_bnd changes at most the four corner cells, whatever b is: every
\* other cell holds the value it held on entry, and the field it leaves is the
\* one it leaves for any other boundary kind.
C4_CornerOnlyMutation ==
    (pc = "done" /\ call.op = "set_bnd") =>
        /\ \A c \in Cells(call.NN) \ Corners(call.NN) :
              heap[call.x][c] = heap0[call.x][c]
        /\ \A b2 \in Kinds : heap[call.x] = set_bnd(b2, heap0[call.x])
        /\ ret = <<call.x>>

\* C4 witness: a call on a grid with non-corner cells that changed a corner.
C4_Witness ==
    /\ pc = "done" /\ call.op = "set_bnd" /\ call.NN >= 3
    /\ heap[call.x][<<0, 0>>] # heap0[call.x][<<0, 0>>]
    /\ \E c \in Cells(call.NN) \ Corners(call.NN) : heap[call.x][c] # Zero

---------------------------------------------------------------------------
(* advect *)

\* np.clip(v, lo, hi) on an integer
Clip(v, lo, hi) == IF v < lo THEN lo ELSE IF v > hi THEN hi ELSE v

\* Lines 62-63: the backward-traced coordinate along one axis, i - dt*(NN-2)*V.
Trace(i, dt, V, NN) == RSub(Q(i), RMul(RMul(dt, Q(NN - 2)), V))

\* A clamp whose upper test reads the grid dimension of the call.
ClampNN(v, GN, NN) ==
    LET lo == IF RLt(v, Half) THEN Half ELSE v
    IN  IF RLt(RAdd(Q(NN), Half), lo) THEN RAdd(Q(NN), Half) ELSE lo

\* Lines 64-65 (and 66-67): x[x < .5] = 0.5, then x[x > N + .5] = NN + 0.5.
\* The test of the second assignment reads the module-level N (GN here), the
\* value assigned comes from the argument NN.
Clamp(v, GN, NN) ==
    LET lo == IF RLt(v, Half) THEN Half ELSE v
    IN  IF RLt(RAdd(Q(GN), Half), lo) THEN RAdd(Q(NN), Half) ELSE lo

\* A lower index clipped one short, so that the upper index stays in range.
LowerShort(v, NN) == Clip(RFloor(v), 0, IF NN >= 2 THEN NN - 2 ELSE 0)

\* Lines 68-75: the two sample indices of a clamped coordinate, clipped.
Lower(v, NN) == Clip(RFloor(v), 0, NN - 1)
Upper(v, NN) == Clip(RFloor(v) + 1, 0, NN - 1)

\* Lines 77-84: the weights and the bilinear sample at clamped (x, y).
Sample(d0, x, y, NN) ==
    LET i0 == Lower(x, NN)   i1 == Upper(x, NN)
        j0 == Lower(y, NN)   j1 == Upper(y, NN)
        s1 == RSub(x, Q(i0))   s0 == RSub(One, s1)
        t1 == RSub(y, Q(j0))   t0 == RSub(One, t1)
    IN  RAdd(RMul(s0, RAdd(RMul(t0, d0[<<i0, j0>>]), RMul(t1, d0[<<i0, j1>>]))),
             RMul(s1, RAdd(RMul(t0, d0[<<i1, j0>>]), RMul(t1, d0[<<i1, j1>>]))))

\* The arrays x and y of advect after lines 62-67.
AdvectX(Vx, dt, GN, NN) == [c \in Cells(NN) |-> Clamp(Trace(c[1], dt, Vx[c], NN), GN, NN)]
AdvectY(Vy, dt, GN, NN) == [c \in Cells(NN) |-> Clamp(Trace(c[2], dt, Vy[c], NN), GN, NN)]

\* The array the expression of lines 81-84 builds, then set_bnd on it.
advect(b, d0, Vx, Vy, dt, GN, NN) ==
    LET x == AdvectX(Vx, dt, GN, NN)
        y == AdvectY(Vy, dt, GN, NN)
    IN  set_bnd(b, [c \in Cells(NN) |-> Sample(d0, x[c], y[c], NN)])

Scale(f, q) == [c \in DOMAIN f |-> RMul(f[c], q)]

VelSet(NN) == {ConstField(NN, Zero)} \cup {Scale(Pattern(s, NN), Half) : s \in 0 .. 1}

DtSet == {<<1, 2>>, <<1, 1>>, <<2, 1>>, <<-1, 1>>}

InitAdvect ==
    /\ N \in 2 .. MaxN
    /\ iter = 1
    /\ \E NN \in 2 .. MaxN, b \in Kinds, dt \in DtSet :
         \E f0 \in FieldSet(NN), vx \in VelSet(NN), vy \in VelSet(NN) :
            /\ heap = [EmptyHeap EXCEPT ![1] = ConstField(NN, Q(9)), ![2] = f0,
                                        ![3] = vx, ![4] = vy]
            /\ call = [op |-> "advect", b |-> b, d |-> 1, d0 |-> 2, Vx |-> 3,
                       Vy |-> 4, dt |-> dt, NN |-> NN]
    /\ heap0 = heap
    /\ pc = "advect"
    /\ k = 0
    /\ loc = <<>>
    /\ ret = <<>>
    /\ apps = 0

\* The whole of advect.  The name d is bound to the array the expression of
\* lines 81-84 allocates; the array the caller passed as d is not written.
AdvectCall ==
    /\ pc = "advect"
    /\ LET new == Fresh(heap)
       IN  /\ heap' = [heap EXCEPT ![new] =
                          advect(call.b, heap[call.d0], heap[call.Vx], heap[call.Vy],
                                 call.dt, N, call.NN)]
           /\ ret' = <<new>>
    /\ loc' = [x |-> AdvectX(heap[call.Vx], call.dt, N, call.NN),
               y |-> AdvectY(heap[call.Vy], call.dt, N, call.NN)]
    /\ pc' = "done"
    /\ UNCHANGED <<N, iter, heap0, call, k, apps>>

NextAdvect == AdvectCall

SpecAdvect == InitAdvect /\ [][NextAdvect]_vars

AdvectDone == pc = "done" /\ call.op = "advect"

ZeroVelocity ==
    /\ heap0[call.Vx] = ConstField(call.NN, Zero)
    /\ heap0[call.Vy] = ConstField(call.NN, Zero)

\* C1 (as claimed): with Vx = Vy = 0 everywhere, the field advect returns
\* equals d0 on every cell that is not a corner.
C1_ZeroVelocityIdentity ==
    (AdvectDone /\ ZeroVelocity) =>
        \A c \in Cells(call.NN) \ Corners(call.NN) :
            heap[ret[1]][c] = heap0[call.d0][c]

\* C3 (as claimed): advect writes the advected values into the buffer the
\* caller passed as d and returns that same buffer.
C3_AdvectWritesCallerBuffer ==
    AdvectDone =>
        /\ ret = <<call.d>>
        /\ heap[call.d] = advect(call.b, heap0[call.d0], heap0[call.Vx],
                                 heap0[call.Vy], call.dt, N, call.NN)

\* C9 (as claimed): each traced coordinate is clamped into [0.5, NN + 0.5] for
\* the NN of the call, whatever the module-level N is.
C9_ClampToCallDimension ==
    AdvectDone =>
        \A c \in Cells(call.NN) :
            /\ loc.x[c] = ClampNN(Trace(c[1], call.dt, heap0[call.Vx][c], call.NN), N, call.NN)
            /\ loc.y[c] = ClampNN(Trace(c[2], call.dt, heap0[call.Vy][c], call.NN), N, call.NN)
            /\ RLe(Half, loc.x[c]) /\ RLe(loc.x[c], RAdd(Q(call.NN), Half))
            /\ RLe(Half, loc.y[c]) /\ RLe(loc.y[c], RAdd(Q(call.NN), Half))

FMin(f) == CHOOSE v \in {f[c] : c \in DOMAIN f} : \A c \in DOMAIN f : RLe(v, f[c])
FMax(f) == CHOOSE v \in {f[c] : c \in DOMAIN f} : \A c \in DOMAIN f : RLe(f[c], v)

\* A weight s1 = v - Lower(v) and its complement lie in [0, 1].
WeightInUnit(v, NN) ==
    LET s1 == RSub(v, Q(Lower(v, NN)))
    IN  RLe(Zero, s1) /\ RLe(s1, One)

\* C10: every non-corner cell of the field advect returns lies between the
\* minimum and the maximum of d0, for any velocity and dt; and whenever a
\* weight leaves [0, 1] the two clipped indices of that axis are the same.
C10_AdvectMaxPrinciple ==
    AdvectDone =>
        /\ LET lo == FMin(heap0[call.d0])
               hi == FMax(heap0[call.d0])
           IN  \A c \in Cells(call.NN) \ Corners(call.NN) :
                  RLe(lo, heap[ret[1]][c]) /\ RLe(heap[ret[1]][c], hi)
        /\ \A c \in Cells(call.NN) :
              /\ WeightInUnit(loc.x[c], call.NN)
                    \/ Lower(loc.x[c], call.NN) = Upper(loc.x[c], call.NN)
              /\ WeightInUnit(loc.y[c], call.NN)
                    \/ Lower(loc.y[c], call.NN) = Upper(loc.y[c], call.NN)

\* C10 witness: a non-corner cell whose weight along the first axis is above 1
\* (its coordinate was traced past the last row), sampled from a field that is
\* not constant.
C10_Witness ==
    /\ AdvectDone /\ call.NN >= 3
    /\ FMin(heap0[call.d0]) # FMax(heap0[call.d0])
    /\ \E c \in Cells(call.NN) \ Corners(call.NN) :
          /\ ~WeightInUnit(loc.x[c], call.NN)
          /\ heap[ret[1]][c] # heap0[call.d0][c]

---------------------------------------------------------------------------
(* lin_solve *)

\* The four neighbours of an interior cell, summed in the order of lines
\* 110-113.
Neighbours(x, c) ==
    RAdd(RAdd(RAdd(x[<<c[1] - 1, c[2]>>], x[<<c[1] + 1, c[2]>>]),
              x[<<c[1], c[2] - 1>>]), x[<<c[1], c[2] + 1>>])

\* The interior cells in row-major order.
InteriorSeq(NN) ==
    [n \in 1 .. ((NN - 2) * (NN - 2)) |->
        <<1 + ((n - 1) \div (NN - 2)), 1 + ((n - 1) % (NN - 2))>>]

RECURSIVE InPlace(_, _, _, _, _, _)
InPlace(x, x0, a, c, cells, n) ==
    IF n > Len(cells) THEN x
    ELSE InPlace([x EXCEPT ![cells[n]] =
                     RMul(RAdd(x0[cells[n]], RMul(a, Neighbours(x, cells[n]))),
                          RDiv(One, c))],
                 x0, a, c, cells, n + 1)

\* A sweep that updates the cells one after the other in the array itself, so
\* that a cell reads the new values of the cells before it (Gauss-Seidel).
sweep_inplace(x, x0, a, c) == InPlace(x, x0, a, c, InteriorSeq(Side(x)), 1)

\* A sweep that multiplies the prior value by a as well.
sweep_misparen(x, x0, a, c) ==
    [cell \in DOMAIN x |->
        IF cell \in Interior(Side(x))
        THEN RMul(RMul(a, RAdd(x0[cell], Neighbours(x, cell))), RDiv(One, c))
        ELSE x[cell]]

\* Lines 110-113: the right-hand side is evaluated as a whole from the arrays
\* as they are, and then assigned to the interior of x.
sweep(x, x0, a, c) ==
    LET cRecip == RDiv(One, c)
    IN  [cell \in DOMAIN x |->
            IF cell \in Interior(Side(x))
            THEN RMul(RAdd(x0[cell], RMul(a, Neighbours(x, cell))), cRecip)
            ELSE x[cell]]

\* The coefficient pairs (a, c) of the calls modelled.
CoefSet == {<<Zero, One>>, <<One, Q(6)>>, <<Half, Q(4)>>}

\* Where the caller passes one array as both x and x0.
BufferPairs == {<<1, 2>>, <<1, 1>>}

InitLinSolve ==
    /\ iter \in 1 .. MaxIter
    /\ \E NN \in 2 .. MaxN, b \in Kinds, co \in CoefSet, ids \in BufferPairs :
         \E f \in FieldSet(NN), f0 \in FieldSet(NN) :
            /\ N = NN
            /\ heap = [[EmptyHeap EXCEPT ![2] = f0] EXCEPT ![1] = f]
            /\ call = [op |-> "lin_solve", NN |-> NN]
            /\ loc = [b |-> b, x |-> ids[1], x0 |-> ids[2], a |-> co[1], c |-> co[2]]
    /\ heap0 = heap
    /\ pc = "lin_solve"
    /\ k = 0
    /\ ret = <<>>
    /\ apps = 0

\* One iteration of the loop of lines 109-114.
LinSolveSweep ==
    /\ pc = "lin_solve"
    /\ k < iter
    /\ heap' = [heap EXCEPT ![loc.x] =
                   set_bnd(loc.b, sweep(heap[loc.x], heap[loc.x0], loc.a, loc.c))]
    /\ k' = k + 1
    /\ UNCHANGED <<N, iter, heap0, call, pc, loc, ret, apps>>

\* Line 115, when lin_solve is the call itself.
LinSolveReturn ==
    /\ pc = "lin_solve"
    /\ call.op = "lin_solve"
    /\ k = iter
    /\ ret' = <<loc.x>>
    /\ pc' = "done"
    /\ UNCHANGED <<N, iter, heap, heap0, call, k, loc, apps>>

NextLinSolve == LinSolveSweep \/ LinSolveReturn

SpecLinSolve == InitLinSolve /\ [][NextLinSolve]_vars

LinSolveDone == pc = "done" /\ call.op = "lin_solve"

\* C6: with a = 0 and c = 1, lin_solve leaves x equal to x0 on every interior
\* cell, for any initial guess, boundary kind and positive sweep count.
C6_DegenerateRelaxation ==
    (LinSolveDone /\ loc.a = Zero /\ loc.c = One) =>
        \A c \in Interior(call.NN) : heap[ret[1]][c] = heap0[loc.x0][c]

\* C6 witness: such a call returned, and its initial guess differed from x0
\* on an interior cell.
C6_Witness ==
    /\ LinSolveDone /\ loc.a = Zero /\ loc.c = One
    /\ \E c \in Interior(call.NN) : heap0[loc.x][c] # heap0[loc.x0][c]

\* Each corner is the mean of the two edge cells next to it.
CornersAveraged(f, NN) ==
    /\ f[<<0, 0>>] = RDiv(RAdd(f[<<1, 0>>], f[<<0, 1>>]), Q(2))
    /\ f[<<0, NN - 1>>] = RDiv(RAdd(f[<<1, NN - 1>>], f[<<0, NN - 2>>]), Q(2))
    /\ f[<<NN - 1, 0>>] = RDiv(RAdd(f[<<NN - 2, 0>>], f[<<NN - 1, 1>>]), Q(2))
    /\ f[<<NN - 1, NN - 1>>] = RDiv(RAdd(f[<<NN - 2, NN - 1>>], f[<<NN - 1, NN - 2>>]), Q(2))

\* C8: lin_solve performs exactly iter sweeps; a sweep gives every interior
\* cell (x0 + a * the sum of its four neighbours as they were when the sweep
\* began) / c, leaves the edge cells alone, and ends with set_bnd's corners.
C8_SnapshotSweeps ==
    /\ [](LinSolveDone => k = iter)
    /\ [][(pc = "lin_solve" /\ k' # k) =>
            /\ k' = k + 1 /\ k < iter
            /\ \A c \in Interior(call.NN) :
                  heap'[loc.x][c] =
                     RDiv(RAdd(heap[loc.x0][c],
                               RMul(loc.a,
                                    RAdd(RAdd(RAdd(heap[loc.x][<<c[1] - 1, c[2]>>],
                                                   heap[loc.x][<<c[1] + 1, c[2]>>]),
                                              heap[loc.x][<<c[1], c[2] - 1>>]),
                                         heap[loc.x][<<c[1], c[2] + 1>>]))),
                          loc.c)
            /\ \A c \in Cells(call.NN) \ (Interior(call.NN) \cup Corners(call.NN)) :
                  heap'[loc.x][c] = heap[loc.x][c]
            /\ call.NN >= 3 => CornersAveraged(heap'[loc.x], call.NN)
            /\ call.NN = 2 => heap'[loc.x] = set_bnd(loc.b, heap[loc.x])
         ]_vars

\* C8 witness: after the first sweep of a call on a grid with adjacent
\* interior cells, x is not what an in-place sweep would have left.
C8_Witness ==
    /\ pc = "lin_solve" /\ call.op = "lin_solve" /\ k = 1 /\ call.NN >= 4
    /\ heap[loc.x] # set_bnd(loc.b, sweep_inplace(heap0[loc.x], heap0[loc.x0], loc.a, loc.c))

---------------------------------------------------------------------------
(* diffuse *)

\* Line 137: a = dt * diff * (NN-2) * (NN-2).
diffuse_a(diff, dt, NN) == RMul(RMul(RMul(dt, diff), Q(NN - 2)), Q(NN - 2))

\* A diagonal coefficient without the neighbour term.
diffuse_c_plain(a) == One

\* Line 138: the coefficient c passed to lin_solve, 1 + 6*a.
diffuse_c(a) == RAdd(One, RMul(Q(6), a))

DiffSet   == {<<1, 2>>, <<1, 1>>}
DiffDtSet == {<<1, 2>>, <<1, 1>>}
PeakSet   == {<<1, 1>>, <<-1, 1>>}

\* What the caller passes as x: a zeroed array, a copy of x0, or x0 itself.
GuessModes == {"zero", "copy", "alias"}

InitDiffuse ==
    /\ iter \in 1 .. MaxIter
    /\ \E NN \in 3 .. MaxN, b \in Kinds, diff \in DiffSet, dt \in DiffDtSet,
          v \in PeakSet, g \in GuessModes :
         \E at \in Interior(NN) :
            /\ N = NN
            /\ heap = [EmptyHeap EXCEPT
                          ![1] = PeakField(NN, at, v),
                          ![2] = IF g = "copy" THEN PeakField(NN, at, v)
                                 ELSE ConstField(NN, Zero)]
            /\ call = [op |-> "diffuse", b |-> b, x |-> IF g = "alias" THEN 1 ELSE 2,
                       x0 |-> 1, diff |-> diff, dt |-> dt, NN |-> NN, peak |-> at]
    /\ heap0 = heap
    /\ pc = "diffuse"
    /\ k = 0
    /\ loc = <<>>
    /\ ret = <<>>
    /\ apps = 0

\* Lines 137-138 up to the call of lin_solve.
DiffuseCall ==
    /\ pc = "diffuse"
    /\ LET a == diffuse_a(call.diff, call.dt, call.NN)
       IN  loc' = [b |-> call.b, x |-> call.x, x0 |-> call.x0, a |-> a, c |-> diffuse_c(a)]
    /\ k' = 0
    /\ pc' = "lin_solve"
    /\ UNCHANGED <<N, iter, heap, heap0, call, ret, apps>>

\* lin_solve returns to diffuse, which returns its result (lines 138-139).
DiffuseReturn ==
    /\ pc = "lin_solve"
    /\ call.op = "diffuse"
    /\ k = iter
    /\ ret' = <<loc.x>>
    /\ apps' = apps + 1
    /\ pc' = "done"
    /\ UNCHANGED <<N, iter, heap, heap0, call, k, loc>>

\* The driver applies diffuse again: the result becomes the prior field x0 and
\* the other array of the pair becomes x (the same array when it passes one).
DiffuseAgain ==
    /\ pc = "done"
    /\ call.op = "diffuse"
    /\ (apps + 1) * iter <= MaxSweeps
    /\ call' = [call EXCEPT !.x = call.x0, !.x0 = ret[1]]
    /\ heap0' = heap
    /\ pc' = "diffuse"
    /\ UNCHANGED <<N, iter, heap, k, loc, ret, apps>>

NextDiffuse == DiffuseCall \/ LinSolveSweep \/ DiffuseReturn \/ DiffuseAgain

SpecDiffuse == InitDiffuse /\ [][NextDiffuse]_vars

DiffuseDone == pc = "done" /\ call.op = "diffuse"

\* The four immediate neighbours of a cell.
Around(c) == {<<c[1] - 1, c[2]>>, <<c[1] + 1, c[2]>>, <<c[1], c[2] - 1>>, <<c[1], c[2] + 1>>}

Smaller(p, q) == RLt(RAbs(p), RAbs(q))

\* C5 (as claimed): every application of diffuse strictly decreases the
\* magnitude of the peak cell and strictly increases the magnitude of each of
\* its four immediate neighbours, those on the grid edge included.
C5_EveryApplicationSmooths ==
    DiffuseDone =>
        /\ Smaller(heap[ret[1]][call.peak], heap0[call.x0][call.peak])
        /\ \A n \in Around(call.peak) : Smaller(heap0[call.x0][n], heap[ret[1]][n])

\* C5 (amended): the first application strictly decreases the magnitude of
\* the peak cell; it strictly increases the magnitude of each immediate
\* neighbour that is an interior cell when iter >= 2 or the array passed as x
\* already holds the peak; a neighbour on the grid edge keeps its value.
C5_FirstApplicationSmooths ==
    (DiffuseDone /\ apps = 1) =>
        /\ Smaller(heap[ret[1]][call.peak], heap0[call.x0][call.peak])
        /\ \A n \in Around(call.peak) :
              IF n \in Interior(call.NN)
              THEN (iter >= 2 \/ heap0[call.x][call.peak] # Zero) =>
                       Smaller(heap0[call.x0][n], heap[ret[1]][n])
              ELSE heap[ret[1]][n] = heap0[call.x0][n]

\* C5 witness: a first application that raised an interior neighbour of the
\* peak and left a neighbour on the grid edge at zero.
C5_Witness ==
    /\ DiffuseDone /\ apps = 1
    /\ \E n \in Around(call.peak) :
          n \in Interior(call.NN) /\ Smaller(heap0[call.x0][n], heap[ret[1]][n])
    /\ \E n \in Around(call.peak) :
          n \notin Interior(call.NN) /\ heap[ret[1]][n] = Zero

---------------------------------------------------------------------------
(* project *)

\* Lines 165-171: the divergence on the interior cells; the other cells of
\* the array keep what they held.
Divergence(div, velocX, velocY, NN) ==
    [c \in Cells(NN) |->
        IF c \in Interior(NN)
        THEN RDiv(RMul(<<-1, 2>>,
                       RSub(RAdd(RSub(velocX[<<c[1] + 1, c[2]>>], velocX[<<c[1] - 1, c[2]>>]),
                                 velocY[<<c[1], c[2] + 1>>]),
                            velocY[<<c[1], c[2] - 1>>])),
                  Q(NN))
        ELSE div[c]]

\* Line 171: p is zeroed on the interior cells.
ZeroInterior(p, NN) == [c \in Cells(NN) |-> IF c \in Interior(NN) THEN Zero ELSE p[c]]

\* The correction of lines 178-181: both components are decreased by
\* 0.5 * (p[i+1,j] - p[i-1,j] + p[i,j+1] - p[i,j-1]) * NN.
Correction(p, c, NN) ==
    RMul(RMul(Half,
              RSub(RAdd(RSub(p[<<c[1] + 1, c[2]>>], p[<<c[1] - 1, c[2]>>]),
                        p[<<c[1], c[2] + 1>>]),
                   p[<<c[1], c[2] - 1>>])),
         Q(NN))

SubtractCorrection(v, p, NN) ==
    [c \in Cells(NN) |-> IF c \in Interior(NN) THEN RSub(v[c], Correction(p, c, NN)) ELSE v[c]]

Ramp(NN, axis) == [c \in Cells(NN) |-> Q(c[axis])]

ProjVelSet(NN) == {ConstField(NN, Zero), ConstField(NN, One), Ramp(NN, 2), Pattern(0, NN)}

\* What the pressure and divergence arrays hold on entry.
ScratchSet(NN) == {ConstField(NN, Zero), Pattern(1, NN)}

InitProject ==
    /\ iter \in 1 .. MaxIter
    /\ \E NN \in 2 .. MaxN :
         \E vx \in ProjVelSet(NN), vy \in ProjVelSet(NN),
            p0 \in ScratchSet(NN), d0 \in ScratchSet(NN) :
            /\ N = NN
            /\ heap = [EmptyHeap EXCEPT ![1] = vx, ![2] = vy, ![3] = p0, ![4] = d0]
            /\ call = [op |-> "project", velocX |-> 1, velocY |-> 2, p |-> 3,
                       div |-> 4, NN |-> NN]
    /\ heap0 = heap
    /\ pc = "project"
    /\ k = 0
    /\ loc = <<>>
    /\ ret = <<>>
    /\ apps = 0

\* Lines 165-174 up to the call of lin_solve(0, p, div, 1, 6).
ProjectDivergence ==
    /\ pc = "project"
    /\ heap' = [heap EXCEPT
                  ![call.div] = set_bnd(0, Divergence(heap[call.div], heap[call.velocX],
                                                      heap[call.velocY], call.NN)),
                  ![call.p]   = set_bnd(0, ZeroInterior(heap[call.p], call.NN))]
    /\ loc' = [b |-> 0, x |-> call.p, x0 |-> call.div, a |-> One, c |-> Q(6)]
    /\ k' = 0
    /\ pc' = "lin_solve"
    /\ UNCHANGED <<N, iter, heap0, call, ret, apps>>

\* lin_solve returns to project: lines 176-184.
ProjectGradient ==
    /\ pc = "lin_solve"
    /\ call.op = "project"
    /\ k = iter
    /\ heap' = [heap EXCEPT
                  ![call.velocX] = set_bnd(1, SubtractCorrection(heap[call.velocX],
                                                                 heap[call.p], call.NN)),
                  ![call.velocY] = set_bnd(2, SubtractCorrection(heap[call.velocY],
                                                                 heap[call.p], call.NN))]
    /\ ret' = <<call.velocX, call.velocY, call.p, call.div>>
    /\ pc' = "done"
    /\ UNCHANGED <<N, iter, heap0, call, k, loc, apps>>

NextProject == ProjectDivergence \/ LinSolveSweep \/ ProjectGradient

SpecProject == InitProject /\ [][NextProject]_vars

ProjectDone == pc = "done" /\ call.op = "project"

\* C2 (as claimed): when velocX and velocY are zero everywhere, project leaves
\* every cell of div and of p zero and the velocities unchanged, whatever p
\* and div held on entry.
C2_ZeroVelocityProject ==
    (/\ ProjectDone
     /\ heap0[call.velocX] = ConstField(call.NN, Zero)
     /\ heap0[call.velocY] = ConstField(call.NN, Zero)) =>
        /\ heap[call.div] = ConstField(call.NN, Zero)
        /\ heap[call.p] = ConstField(call.NN, Zero)
        /\ heap[call.velocX] = heap0[call.velocX]
        /\ heap[call.velocY] = heap0[call.velocY]

\* C7 (as claimed): on every interior cell velocX is decreased by
\* 0.5*NN*(p[i+1,j] - p[i-1,j]) only and velocY by 0.5*NN*(p[i,j+1] - p[i,j-1])
\* only.
C7_OwnAxisGradient ==
    ProjectDone =>
        \A c \in Interior(call.NN) :
            /\ heap[call.velocX][c] =
                  RSub(heap0[call.velocX][c],
                       RMul(RMul(Half, Q(call.NN)),
                            RSub(heap[call.p][<<c[1] + 1, c[2]>>],
                                 heap[call.p][<<c[1] - 1, c[2]>>])))
            /\ heap[call.velocY][c] =
                  RSub(heap0[call.velocY][c],
                       RMul(RMul(Half, Q(call.NN)),
                            RSub(heap[call.p][<<c[1], c[2] + 1>>],
                                 heap[call.p][<<c[1], c[2] - 1>>])))

=============================================================================
